---- MODULE Spec2Model ----
(***************************************************************************)
(* Rating core of back-dundermifflin: the rating controller (rateBook),    *)
(* the rating service (handleBookRating), the rating and book repositories *)
(* and the two collections they work on.  Every await of the service is    *)
(* one atomic step of a request; requests interleave at their awaits.      *)
(***************************************************************************)
EXTENDS Integers, Sequences, FiniteSets, TLC

(* ---------------------------- bounds ---------------------------------- *)

\* number of HTTP requests POST /:bookId/:userId/:newRating that arrive
MaxReq == 3
\* number of those requests that arrive when they may overlap
MaxConc == 2
\* number of rating requests that arrive while the catalog is being edited
MaxCatReq == 2
\* length of the :newRating URL segment in the parsing specification
MaxLen == 3

Reqs == 1..MaxReq

\* ObjectIds of books and users that requests name; b1 is in the catalog
\* from the start
BookIds == {"b1", "b2"}
UserIds == {"u1", "u2"}

\* characters a :newRating segment is made of
Chars == {"0", "1", "5", "6", ".", "a", "-"}

\* the :newRating segments sent by concurrent requests
ScoreParams == {<<"4">>, <<"2">>}

\* the raters and :newRating segments of requests sent one after another
SeqUserIds == {"u1", "u2", "u3"}
SeqScoreParams == {<<"4">>, <<"2">>, <<"5">>}

\* the :newRating segments of submissions sent again
RetryScoreParams == {<<"4">>, <<"2">>, <<"6">>}

(* ----------------------- numbers and strings -------------------------- *)

DigitVal(c) ==
    CASE c = "0" -> 0 [] c = "1" -> 1 [] c = "2" -> 2 [] c = "3" -> 3
      [] c = "4" -> 4 [] c = "5" -> 5 [] c = "6" -> 6 [] c = "7" -> 7
      [] c = "8" -> 8 [] c = "9" -> 9

AllDigits == {"0", "1", "2", "3", "4", "5", "6", "7", "8", "9"}

\* the longest prefix of s made of decimal digits, as a length
RECURSIVE DigitPrefixLen(_)
DigitPrefixLen(s) ==
    IF s = <<>> \/ Head(s) \notin AllDigits THEN 0
    ELSE 1 + DigitPrefixLen(Tail(s))

\* the value of a sequence of decimal digits
RECURSIVE DigitsValue(_)
DigitsValue(s) ==
    IF s = <<>> THEN 0
    ELSE 10 * DigitsValue(SubSeq(s, 1, Len(s) - 1)) + DigitVal(s[Len(s)])

\* parseInt(s, 10): optional sign, then the longest run of digits; what
\* follows the digits is ignored; no digit at all gives NaN
parseInt(s) ==
    LET neg  == s # <<>> /\ Head(s) = "-"
        body == IF neg THEN Tail(s) ELSE s
        n    == DigitPrefixLen(body)
    IN  IF n = 0 THEN [nan |-> TRUE, val |-> 0]
        ELSE [nan |-> FALSE,
              val |-> (IF neg THEN -1 ELSE 1) * DigitsValue(SubSeq(body, 1, n))]

RECURSIVE GCD(_, _)
GCD(a, b) == IF b = 0 THEN a ELSE GCD(b, a % b)

\* a non-negative rational number in lowest terms: averageRating is held
\* exactly (the double the service computes is the correctly rounded value of
\* the same quotient for every sequence of up to six scores in 1..5)
Rat(n, d) == LET g == GCD(n, d) IN <<n \div g, d \div g>>

Zero == Rat(0, 1)

(* ------------------------------ state --------------------------------- *)

VARIABLES
    ratings,   \* the Rating collection: documents in insertion order
    books,     \* the Book collection: _id -> rating fields of the document
    req,       \* the requests: position, parameters, loaded document, response
    script     \* the duplicate-removal script: its position and its locals

vars == <<ratings, books, req, script>>

\* a book document as the schema defaults create it
NewBook == [averageRating |-> Zero, totalRatingsCount |-> 0]

\* a request that has not arrived yet
NoReq == [pc |-> "idle", bookId |-> "b1", userId |-> "u1", newRating |-> <<>>,
          rating |-> 0, book |-> NewBook, avgModified |-> FALSE,
          status |-> 0, message |-> "", error |-> "", list |-> <<>>]

\* Rating.findOne({book, user})
RatingExists(b, u) == \E i \in 1..Len(ratings) : ratings[i].book = b /\ ratings[i].user = u

\* the script before findAndRemoveDuplicates is called; result is the
\* response to GET /books that the server is putting together
NoScript == [pc |-> "idle", currentPage |-> 1, allBooks |-> <<>>, totalCount |-> 0,
             result |-> [found |-> FALSE, counted |-> FALSE, data |-> <<>>,
                         page |-> 1, limit |-> 1, totalCount |-> 0, totalPages |-> 0],
             duplicatesToDelete |-> <<>>]

Respond(r, st, msg) == [req EXCEPT ![r].pc = "sent", ![r].status = st, ![r].message = msg]

\* every :newRating segment of at most MaxLen characters (never empty: an
\* empty segment does not match the route)
RECURSIVE SegmentsOfLen(_)
SegmentsOfLen(n) ==
    IF n = 0 THEN {<<>>}
    ELSE {Append(s, c) : s \in SegmentsOfLen(n - 1), c \in Chars}

Segments == UNION {SegmentsOfLen(n) : n \in 1..MaxLen}

(* --------------------- rating.controller: rateBook -------------------- *)

\* the validation without its upper limit
InvalidRatingNoMax(p) == p.nan \/ p.val < 1

\* the controller's validation: isNaN(rating) || rating < 1 || rating > 5
InvalidRating(p) == p.nan \/ p.val < 1 \/ p.val > 5

\* the controller's catch block: the status for a thrown error message
ErrorStatus(msg) ==
    IF msg = "Ya has calificado este libro." \/ msg = "Libro no encontrado."
    THEN 409 ELSE 500

\* the body the catch block sends: the two known messages as they are,
\* anything else under the generic message
ErrorBody(msg) ==
    IF ErrorStatus(msg) = 409 THEN msg ELSE "Error interno del servidor"

\* the error property of the 500 body: the thrown error's own message
ErrorDetail(msg) == IF ErrorStatus(msg) = 500 THEN msg ELSE ""

Throw(r, msg) ==
    [Respond(r, ErrorStatus(msg), ErrorBody(msg)) EXCEPT ![r].error = ErrorDetail(msg)]

\* request r arrives as POST /b/u/s; requests are numbered as they arrive
rateBook(r, b, u, s) ==
    /\ req[r].pc = "idle"
    /\ IF r = 1 THEN TRUE ELSE req[r - 1].pc # "idle"
    /\ LET p == parseInt(s)
           q == [req[r] EXCEPT !.bookId = b, !.userId = u, !.newRating = s]
       IN  IF InvalidRating(p)
           THEN req' = [req EXCEPT ![r] =
                    [q EXCEPT !.pc = "sent", !.status = 400,
                              !.message = "La calificacion debe ser un numero entre 1 y 5."]]
           ELSE req' = [req EXCEPT ![r] = [q EXCEPT !.pc = "check", !.rating = p.val]]
    /\ UNCHANGED <<ratings, books, script>>

(* ------------------ rating.service: handleBookRating ------------------ *)

\* the existence check done as an upsert: a hit takes the new score
findByBookAndUserUpsert(r) ==
    /\ req[r].pc = "check"
    /\ IF RatingExists(req[r].bookId, req[r].userId)
       THEN /\ req' = Throw(r, "Ya has calificado este libro.")
            /\ ratings' = [i \in 1..Len(ratings) |->
                              IF ratings[i].book = req[r].bookId /\ ratings[i].user = req[r].userId
                              THEN [ratings[i] EXCEPT !.rating = req[r].rating]
                              ELSE ratings[i]]
       ELSE /\ req' = [req EXCEPT ![r].pc = "insert"]
            /\ UNCHANGED ratings
    /\ UNCHANGED <<books, script>>

\* the existence check that also matches on the score
findByBookAndUserSameScore(r) ==
    /\ req[r].pc = "check"
    /\ IF \E i \in 1..Len(ratings) : /\ ratings[i].book = req[r].bookId
                                      /\ ratings[i].user = req[r].userId
                                      /\ ratings[i].rating = req[r].rating
       THEN req' = Throw(r, "Ya has calificado este libro.")
       ELSE req' = [req EXCEPT ![r].pc = "insert"]
    /\ UNCHANGED <<ratings, books, script>>

\* step 1: ratingRepository.findByBookAndUser, and the throw on a hit
findByBookAndUser(r) ==
    /\ req[r].pc = "check"
    /\ IF RatingExists(req[r].bookId, req[r].userId)
       THEN req' = Throw(r, "Ya has calificado este libro.")
       ELSE req' = [req EXCEPT ![r].pc = "insert"]
    /\ UNCHANGED <<ratings, books, script>>

\* the Rating collection without its unique index
DuplicateKeyNoIndex(b, u) == FALSE

\* the unique index {book: 1, user: 1} refuses a second document of a pair
DuplicateKey(b, u) == RatingExists(b, u)

\* the insert whose error is caught and dropped: the request goes on
createRatingIgnoreError(r) ==
    /\ req[r].pc = "insert"
    /\ IF DuplicateKey(req[r].bookId, req[r].userId)
       THEN /\ req' = [req EXCEPT ![r].pc = "load"]
            /\ UNCHANGED ratings
       ELSE /\ ratings' = Append(ratings, [rating |-> req[r].rating,
                                           book |-> req[r].bookId,
                                           user |-> req[r].userId])
            /\ req' = [req EXCEPT ![r].pc = "load"]
    /\ UNCHANGED <<books, script>>

\* step 2: ratingRepository.createRating; the driver's duplicate key error
\* is thrown with the driver's own message
createRating(r) ==
    /\ req[r].pc = "insert"
    /\ IF DuplicateKey(req[r].bookId, req[r].userId)
       THEN /\ req' = Throw(r, "E11000 duplicate key error")
            /\ UNCHANGED ratings
       ELSE /\ ratings' = Append(ratings, [rating |-> req[r].rating,
                                           book |-> req[r].bookId,
                                           user |-> req[r].userId])
            /\ req' = [req EXCEPT ![r].pc = "load"]
    /\ UNCHANGED <<books, script>>

\* the mean taken over the old count instead of the new one
NewAverageOldCount(book, newRating) ==
    LET a == book.averageRating
        n == IF book.totalRatingsCount = 0 THEN 1 ELSE book.totalRatingsCount
    IN  Rat(a[1] * book.totalRatingsCount + newRating * a[2], a[2] * n)

\* step 4: the incremental mean
NewAverage(book, newRating) ==
    LET a == book.averageRating
        newTotalCount == book.totalRatingsCount + 1
    IN  Rat(a[1] * book.totalRatingsCount + newRating * a[2], a[2] * newTotalCount)

\* the load that takes the request's event back when the book is missing
findBookByIdRollback(r) ==
    /\ req[r].pc = "load"
    /\ IF req[r].bookId \notin DOMAIN books
       THEN /\ req' = Throw(r, "Libro no encontrado.")
            /\ ratings' = SelectSeq(ratings,
                    LAMBDA e : ~(e.book = req[r].bookId /\ e.user = req[r].userId))
       ELSE LET book == books[req[r].bookId]
                newAverage == NewAverage(book, req[r].rating)
            IN  /\ req' = [req EXCEPT ![r].pc = "save",
                             ![r].book = [averageRating |-> newAverage,
                                          totalRatingsCount |-> book.totalRatingsCount + 1],
                             ![r].avgModified = (newAverage # book.averageRating)]
                /\ UNCHANGED ratings
    /\ UNCHANGED <<books, script>>

\* steps 3 to 5 up to the save: bookRepository.findBookById, the throw on a
\* miss, and the two assignments to the loaded document.  Mongoose marks a
\* path modified only when the assigned value differs from the loaded one.
findBookById(r) ==
    /\ req[r].pc = "load"
    /\ IF req[r].bookId \notin DOMAIN books
       THEN req' = Throw(r, "Libro no encontrado.")
       ELSE LET book == books[req[r].bookId]
                newAverage == NewAverage(book, req[r].rating)
            IN  req' = [req EXCEPT ![r].pc = "save",
                          ![r].book = [averageRating |-> newAverage,
                                       totalRatingsCount |-> book.totalRatingsCount + 1],
                          ![r].avgModified = (newAverage # book.averageRating)]
    /\ UNCHANGED <<ratings, books, script>>

\* a save that sends the count and never the average
SavedBookCountOnly(stored, doc, avgModified) ==
    [averageRating |-> stored.averageRating,
     totalRatingsCount |-> doc.totalRatingsCount]

\* what book.save() writes: the modified paths of the document in hand
SavedBook(stored, doc, avgModified) ==
    [averageRating |-> IF avgModified THEN doc.averageRating ELSE stored.averageRating,
     totalRatingsCount |-> doc.totalRatingsCount]

\* the save done as an update without its _id filter: every book takes the
\* document's fields
updateBookRatingMetricsAll(r) ==
    /\ req[r].pc = "save"
    /\ IF req[r].bookId \notin DOMAIN books
       THEN /\ req' = Throw(r, "No document found for query")
            /\ UNCHANGED books
       ELSE /\ books' = [x \in DOMAIN books |->
                            SavedBook(books[x], req[r].book, req[r].avgModified)]
            /\ req' = Respond(r, 200, "Calificacion registrada exitosamente.")
    /\ UNCHANGED <<ratings, script>>

\* step 5: bookRepository.updateBookRatingMetrics, then the 200 response
\* carrying the document in hand
updateBookRatingMetrics(r) ==
    /\ req[r].pc = "save"
    /\ IF req[r].bookId \notin DOMAIN books
       THEN /\ req' = Throw(r, "No document found for query")
            /\ UNCHANGED books
       ELSE /\ books' = [books EXCEPT ![req[r].bookId] =
                            SavedBook(@, req[r].book, req[r].avgModified)]
            /\ req' = Respond(r, 200, "Calificacion registrada exitosamente.")
    /\ UNCHANGED <<ratings, script>>

(* -------------------------- specifications ---------------------------- *)

\* a catalog nobody has rated yet: b1 exists, b2 does not
Init ==
    /\ ratings = <<>>
    /\ books = [b \in {"b1"} |-> NewBook]
    /\ req = [r \in Reqs |-> NoReq]
    /\ script = NoScript

\* concurrent rating requests
Next ==
    \E r \in 1..MaxConc :
        \/ \E b \in BookIds, u \in UserIds, s \in ScoreParams : rateBook(r, b, u, s)
        \/ findByBookAndUser(r)
        \/ createRating(r)
        \/ findBookById(r)
        \/ updateBookRatingMetrics(r)

Spec == Init /\ [][Next]_vars

\* no request is between its arrival and its response
Quiescent == \A r \in Reqs : req[r].pc \in {"idle", "sent"}

\* no request other than r is between its arrival and its response
Alone(r) == \A o \in Reqs \ {r} : req[o].pc \in {"idle", "sent"}

\* rating requests sent one after another: a request arrives only when every
\* earlier one has been answered
NextSeq ==
    \E r \in Reqs :
        \/ \E b \in BookIds, u \in SeqUserIds, s \in SeqScoreParams :
              Alone(r) /\ rateBook(r, b, u, s)
        \/ findByBookAndUser(r)
        \/ createRating(r)
        \/ findBookById(r)
        \/ updateBookRatingMetrics(r)

SpecSeq == Init /\ [][NextSeq]_vars

\* one rating on record: u1 gave b1 a 4
InitParse ==
    /\ ratings = <<[rating |-> 4, book |-> "b1", user |-> "u1"]>>
    /\ books = [b \in {"b1"} |-> [averageRating |-> Rat(4, 1), totalRatingsCount |-> 1]]
    /\ req = [r \in Reqs |-> NoReq]
    /\ script = NoScript

\* one request whose :newRating is any segment of up to MaxLen characters
NextParse ==
    \E r \in {1} :
        \/ \E b \in BookIds, u \in UserIds, s \in Segments : rateBook(r, b, u, s)
        \/ findByBookAndUser(r)
        \/ createRating(r)
        \/ findBookById(r)
        \/ updateBookRatingMetrics(r)

SpecParse == InitParse /\ [][NextParse]_vars

\* submissions of a pair sent again: one rating is on record and the
\* requests, valid or not, may overlap
NextRetry ==
    \E r \in 1..MaxConc :
        \/ \E b \in BookIds, u \in UserIds, s \in RetryScoreParams : rateBook(r, b, u, s)
        \/ findByBookAndUser(r)
        \/ createRating(r)
        \/ findBookById(r)
        \/ updateBookRatingMetrics(r)

SpecRetry == InitParse /\ [][NextRetry]_vars

\* the book every request of a race names, and its raters
RaceBookIds == {"b1"}
RaceUserIds == <<"u1", "u2", "u3">>

\* the raters that may send request r: one who sent an earlier request, or
\* the next one who has not sent any (raters differ only by name, so they
\* are named in the order of their first request)
RaceUsersOf(r) ==
    {RaceUserIds[k] : k \in {j \in 1..Len(RaceUserIds) :
                                j <= 1 + Cardinality({req[o].userId : o \in 1..(r - 1)})}}

\* every request may overlap with every other: up to MaxReq requests on one
\* book at once
NextRace ==
    \E r \in Reqs :
        \/ \E b \in RaceBookIds, u \in RaceUsersOf(r), s \in ScoreParams : rateBook(r, b, u, s)
        \/ findByBookAndUser(r)
        \/ createRating(r)
        \/ findBookById(r)
        \/ updateBookRatingMetrics(r)

SpecRace == Init /\ [][NextRace]_vars

(* ---------------- rating.controller: rateUserBooks -------------------- *)

\* request r arrives as GET /list/u
rateUserBooks(r, u) ==
    /\ req[r].pc = "idle"
    /\ IF r = 1 THEN TRUE ELSE req[r - 1].pc # "idle"
    /\ req' = [req EXCEPT ![r].pc = "find", ![r].userId = u]
    /\ UNCHANGED <<ratings, books, script>>

\* Rating.find({}) in place of Rating.find({user: userId})
RECURSIVE FindAllFrom(_, _)
FindAllFrom(i, u) ==
    IF i > Len(ratings) THEN <<>>
    ELSE <<[id |-> i, rating |-> ratings[i].rating, user |-> ratings[i].user,
            book |-> ratings[i].book]>> \o FindAllFrom(i + 1, u)

\* the documents Rating.find(filter) returns, each with its place in the
\* collection as its _id
RECURSIVE FindFrom(_, _)
FindFrom(i, u) ==
    IF i > Len(ratings) THEN <<>>
    ELSE IF ratings[i].user = u
         THEN <<[id |-> i, rating |-> ratings[i].rating, user |-> u,
                 book |-> ratings[i].book]>> \o FindFrom(i + 1, u)
         ELSE FindFrom(i + 1, u)

\* ratingRepository.findRatingsByUser: the find of the query
findRatingsByUser(r) ==
    /\ req[r].pc = "find"
    /\ req' = [req EXCEPT ![r].pc = "populate", ![r].list = FindFrom(1, req[r].userId)]
    /\ UNCHANGED <<ratings, books, script>>

\* what populate('book', ...) puts in place of a book id: the selected fields
\* of the book, or null when no book has the id
Populated(b) ==
    IF b \in DOMAIN books
    THEN [null |-> FALSE, id |-> b, averageRating |-> books[b].averageRating,
          totalRatingsCount |-> books[b].totalRatingsCount]
    ELSE [null |-> TRUE, id |-> "", averageRating |-> Zero, totalRatingsCount |-> 0]

\* the populate of the query, then the 200 response carrying the list
populate(r) ==
    /\ req[r].pc = "populate"
    /\ req' = [Respond(r, 200, "Calificaciones del usuario obtenidas exitosamente.")
                 EXCEPT ![r].list = [i \in 1..Len(req[r].list) |->
                     [id |-> req[r].list[i].id, rating |-> req[r].list[i].rating,
                      user |-> req[r].list[i].user,
                      book |-> Populated(req[r].list[i].book)]]]
    /\ UNCHANGED <<ratings, books, script>>

\* rating requests and listing requests, overlapping, with one rating on
\* record
NextList ==
    \E r \in 1..MaxConc :
        \/ \E b \in BookIds, u \in UserIds, s \in ScoreParams : rateBook(r, b, u, s)
        \/ findByBookAndUser(r)
        \/ createRating(r)
        \/ findBookById(r)
        \/ updateBookRatingMetrics(r)
        \/ \E u \in UserIds : rateUserBooks(r, u)
        \/ findRatingsByUser(r)
        \/ populate(r)

SpecList == InitParse /\ [][NextList]_vars

(* --------------------- storage failures, scheduling ------------------- *)

\* one of the four awaited storage calls of request r rejects with a
\* transient error, which the service lets through to the controller's
\* catch block.  A read that fails returns nothing; a write that fails may
\* or may not have reached the collection (landed).
storageFailure(r, landed) ==
    /\ req[r].pc \in {"check", "insert", "load", "save"}
    /\ req' = Throw(r, "storage unavailable")
    /\ ratings' =
          IF req[r].pc = "insert" /\ landed /\ ~DuplicateKey(req[r].bookId, req[r].userId)
          THEN Append(ratings, [rating |-> req[r].rating, book |-> req[r].bookId,
                                user |-> req[r].userId])
          ELSE ratings
    /\ books' =
          IF req[r].pc = "save" /\ landed /\ req[r].bookId \in DOMAIN books
          THEN [books EXCEPT ![req[r].bookId] =
                   SavedBook(@, req[r].book, req[r].avgModified)]
          ELSE books
    /\ UNCHANGED script

\* concurrent rating requests over a store whose calls can fail
NextFail ==
    \E r \in 1..MaxConc :
        \/ \E b \in BookIds, u \in UserIds, s \in ScoreParams : rateBook(r, b, u, s)
        \/ findByBookAndUser(r)
        \/ createRating(r)
        \/ findBookById(r)
        \/ updateBookRatingMetrics(r)
        \/ \E landed \in BOOLEAN : storageFailure(r, landed)

SpecFail == Init /\ [][NextFail]_vars

\* the next storage step of request r
Service(r) ==
    \/ findByBookAndUser(r)
    \/ createRating(r)
    \/ findBookById(r)
    \/ updateBookRatingMetrics(r)

\* concurrent rating requests whose storage calls all return: the event loop
\* runs the continuation of every await that has resolved
SpecLive == Init /\ [][Next]_vars /\ \A r \in 1..MaxConc : WF_vars(Service(r))

(* ------------------- book.controller: the catalog --------------------- *)

\* the rating fields a POST /books body can carry: none (the schema defaults
\* apply) or values of the client's choosing
CreateBodies == {NewBook, [averageRating |-> Rat(5, 1), totalRatingsCount |-> 1]}

\* bookRepository.create: new Book(bookData).save() with _id b; an _id that
\* is taken is refused by the _id index and the collection stays as it is
create(b, body) ==
    /\ b \notin DOMAIN books
    /\ books' = [x \in DOMAIN books \cup {b} |-> IF x = b THEN body ELSE books[x]]
    /\ UNCHANGED <<ratings, req, script>>

\* rating requests while books are added to the catalog
NextCatalog ==
    \/ \E r \in 1..MaxCatReq :
        \/ \E b \in BookIds, u \in UserIds, s \in ScoreParams : rateBook(r, b, u, s)
        \/ findByBookAndUser(r)
        \/ createRating(r)
        \/ findBookById(r)
        \/ updateBookRatingMetrics(r)
    \/ \E b \in BookIds, body \in CreateBodies : create(b, body)

SpecCatalog == Init /\ [][NextCatalog]_vars

\* the rating fields a POST /books/:idBook body can carry: none, or values
\* of the client's choosing
UpdateBodies ==
    {[given |-> FALSE, fields |-> NewBook],
     [given |-> TRUE, fields |-> [averageRating |-> Rat(5, 1), totalRatingsCount |-> 1]]}

\* bookRepository.findByIdAndUpdate: the body's fields are set on the book
\* with _id b; no such book, no change
update(b, body) ==
    /\ b \in DOMAIN books
    /\ books' = IF body.given THEN [books EXCEPT ![b] = body.fields] ELSE books
    /\ UNCHANGED <<ratings, req, script>>

\* bookRepository.findByIdAndRemove: the book with _id b is deleted; its
\* ratings stay in the Rating collection
remove(b) ==
    /\ b \in DOMAIN books
    /\ books' = [x \in DOMAIN books \ {b} |-> books[x]]
    /\ UNCHANGED <<ratings, req, script>>

\* rating requests while books are created, updated and deleted
NextEdit ==
    \/ \E r \in 1..MaxCatReq :
        \/ \E b \in BookIds, u \in UserIds, s \in ScoreParams : rateBook(r, b, u, s)
        \/ findByBookAndUser(r)
        \/ createRating(r)
        \/ findBookById(r)
        \/ updateBookRatingMetrics(r)
    \/ \E b \in BookIds, body \in CreateBodies : create(b, body)
    \/ \E b \in BookIds, body \in UpdateBodies : update(b, body)
    \/ \E b \in BookIds : remove(b)

SpecEdit == Init /\ [][NextEdit]_vars

(* ------------- book.repository: findAll, and GET /books --------------- *)

\* number of books the catalog holds at most
MaxBooks == 3
\* largest limit a GET /books request asks for
MaxLimit == 3
\* largest page a GET /books request asks for
MaxPage == 4

\* ObjectIds of the books of a catalog, in the order of their creation
CatalogIds == 1..MaxBooks

\* titles (the schema's unique index lets no two books share one), authors
\* and file types of the books of a catalog
Titles == {"A", "a", "B"}
Authors == {"X"}
FileTypes == {"PDF"}

\* the rating fields of the books of a catalog when a run starts
CatalogRatings == {NewBook, [averageRating |-> Rat(4, 1), totalRatingsCount |-> 1]}

\* every catalog of at most MaxBooks books
Catalogs ==
    {c \in UNION {[D -> [titulo : Titles, autor : Authors, fileType : FileTypes,
                         averageRating : {x.averageRating : x \in CatalogRatings},
                         totalRatingsCount : {x.totalRatingsCount : x \in CatalogRatings}]] :
                     D \in SUBSET CatalogIds} :
        /\ \A b, d \in DOMAIN c : c[b].titulo = c[d].titulo => b = d
        /\ \A b \in DOMAIN c :
              [averageRating |-> c[b].averageRating,
               totalRatingsCount |-> c[b].totalRatingsCount] \in CatalogRatings}

\* a catalog, and a client about to send GET /books
InitCatalog ==
    /\ ratings = <<>>
    /\ books \in Catalogs
    /\ req = [r \in Reqs |-> NoReq]
    /\ script = [NoScript EXCEPT !.pc = "fetch"]

\* the order of two rationals
RatLess(a, b) == a[1] * b[2] < b[1] * a[2]

\* sort({averageRating: -1, _id: -1}): book b comes before book d
SortsBefore(b, d) ==
    \/ RatLess(books[d].averageRating, books[b].averageRating)
    \/ books[b].averageRating = books[d].averageRating /\ b > d

\* the ids of S in sort order
RECURSIVE SortedFrom(_)
SortedFrom(S) ==
    IF S = {} THEN <<>>
    ELSE LET first == CHOOSE x \in S : \A y \in S \ {x} : SortsBefore(x, y)
         IN  <<first>> \o SortedFrom(S \ {first})

\* a book as .lean() returns it
Lean(b) == [id |-> b, titulo |-> books[b].titulo, autor |-> books[b].autor,
            fileType |-> books[b].fileType, averageRating |-> books[b].averageRating]

\* Book.find({}).sort(...).skip(skip).limit(lim).lean()
Find(skip, lim) ==
    LET all == SortedFrom(DOMAIN books)
        n   == IF Len(all) - skip < 0 THEN 0
               ELSE IF Len(all) - skip < lim THEN Len(all) - skip ELSE lim
    IN  [k \in 1..n |-> Lean(all[skip + k])]

\* the quotient rounded down
Floor(n, d) == n \div d

\* Math.ceil(n / d) for n >= 0, d >= 1
Ceil(n, d) == (n + d - 1) \div d

\* the controller's  parseInt(query) || fallback  for a query that is a
\* numeral: 0 gives the fallback
OrDefault(v, fallback) == IF v = 0 THEN fallback ELSE v

\* the limit of a request that asks for none
DefaultLimit == 10

\* GET /books?page=p&limit=l reaches the controller, which calls findAll
findAll(p, l) ==
    /\ script.pc = "fetch"
    /\ script' = [script EXCEPT !.pc = "query",
                     !.result = [found |-> FALSE, counted |-> FALSE, data |-> <<>>,
                                 page |-> OrDefault(p, 1),
                                 limit |-> OrDefault(l, DefaultLimit),
                                 totalCount |-> 0, totalPages |-> 0]]
    /\ UNCHANGED <<ratings, books, req>>

\* the first query of the Promise.all: the page of books
find ==
    /\ script.pc = "query" /\ ~script.result.found
    /\ script' = [script EXCEPT !.result.found = TRUE,
                     !.result.data = Find((script.result.page - 1) * script.result.limit,
                                          script.result.limit)]
    /\ UNCHANGED <<ratings, books, req>>

\* the second query of the Promise.all: Book.countDocuments({})
countDocuments ==
    /\ script.pc = "query" /\ ~script.result.counted
    /\ script' = [script EXCEPT !.result.counted = TRUE,
                     !.result.totalCount = Cardinality(DOMAIN books)]
    /\ UNCHANGED <<ratings, books, req>>

\* both queries are back: totalPages, and the 200 response
findAllReturn ==
    /\ script.pc = "query" /\ script.result.found /\ script.result.counted
    /\ script' = [script EXCEPT !.pc = "response",
                     !.result.totalPages = Ceil(script.result.totalCount, script.result.limit)]
    /\ UNCHANGED <<ratings, books, req>>

\* the client reads the response and goes on to its next request
nextRequest ==
    /\ script.pc = "response"
    /\ script' = [script EXCEPT !.pc = "fetch"]
    /\ UNCHANGED <<ratings, books, req>>

\* a client asks for any page with any limit, again and again, of a catalog
\* that does not change
NextPages ==
    \/ \E p \in 0..MaxPage, l \in 0..MaxLimit : findAll(p, l)
    \/ find
    \/ countDocuments
    \/ findAllReturn
    \/ nextRequest

SpecPages == InitCatalog /\ [][NextPages]_vars

(* ------------------- the script: fetchAllBooks ------------------------ *)

\* the script's page size (const limit = 10), scaled to the catalogs above
ScriptLimit == 2

\* the loop that goes on until the counts are equal
pushPageUntilEqual ==
    /\ script.pc = "response"
    /\ LET all == script.allBooks \o script.result.data
       IN  script' = [script EXCEPT
                         !.allBooks = all,
                         !.totalCount = script.result.totalCount,
                         !.currentPage = @ + 1,
                         !.pc = IF Len(all) # script.result.totalCount
                                THEN "fetch" ELSE "scan"]
    /\ UNCHANGED <<ratings, books, req>>

\* the body of the do-while after the response: the page's books are
\* pushed, the page number goes up, and the loop goes on while fewer books
\* are in hand than the response's totalCount; otherwise fetchAllBooks
\* returns allBooks
pushPage ==
    /\ script.pc = "response"
    /\ LET all == script.allBooks \o script.result.data
       IN  script' = [script EXCEPT
                         !.allBooks = all,
                         !.totalCount = script.result.totalCount,
                         !.currentPage = @ + 1,
                         !.pc = IF Len(all) < script.result.totalCount
                                THEN "fetch" ELSE "scan"]
    /\ UNCHANGED <<ratings, books, req>>

\* the request fails (network error, or a status that is not ok): the catch
\* block makes fetchAllBooks return []
fetchFails ==
    /\ script.pc = "query"
    /\ script' = [script EXCEPT !.pc = "scan", !.allBooks = <<>>]
    /\ UNCHANGED <<ratings, books, req>>

\* the script's next GET /books, for its current page
fetchPage == script.currentPage <= MaxPage /\ findAll(script.currentPage, ScriptLimit)

\* the steps of fetchAllBooks and of the server answering it
FetchStep ==
    \/ fetchPage
    \/ find
    \/ countDocuments
    \/ findAllReturn
    \/ pushPage

\* fetchAllBooks while other clients delete books
NextFetch ==
    \/ fetchPage
    \/ find
    \/ countDocuments
    \/ findAllReturn
    \/ pushPage
    \/ fetchFails
    \/ \E b \in CatalogIds : remove(b)

\* every request of the script is answered, and the script runs on
SpecFetch == InitCatalog /\ [][NextFetch]_vars /\ WF_vars(FetchStep)

(* -------------- the script: findAndRemoveDuplicates ------------------- *)

\* number of ratings a book has at most once it is rated during a run
MaxRated == 2

\* the scores of the ratings saved during a run
RunScores == {5}

\* String.prototype.toLowerCase on the strings of a catalog
toLowerCase(c) ==
    CASE c = "A" -> "a" [] c = "B" -> "b" [] c = "X" -> "x" [] c = "PDF" -> "pdf"
      [] OTHER -> c

\* the script's key of a book: titulo, autor and fileType in lower case (no
\* string of a catalog has white space at its ends or a '-' in it)
Key(book) == <<toLowerCase(book.titulo), toLowerCase(book.autor), toLowerCase(book.fileType)>>

\* the for loop over the fetched books: a book whose key has been seen goes
\* to duplicatesToDelete, any other has its key recorded
RECURSIVE Scan(_, _, _)
Scan(list, seenBooks, duplicatesToDelete) ==
    IF list = <<>> THEN duplicatesToDelete
    ELSE IF Key(Head(list)) \in seenBooks
         THEN Scan(Tail(list), seenBooks, Append(duplicatesToDelete, Head(list)))
         ELSE Scan(Tail(list), seenBooks \cup {Key(Head(list))}, duplicatesToDelete)

\* fetchAllBooks has returned: no book, or no duplicate, ends the script;
\* otherwise the duplicates are listed and the user is asked
scan ==
    /\ script.pc = "scan"
    /\ LET dups == Scan(script.allBooks, {}, <<>>)
       IN  script' = [script EXCEPT !.duplicatesToDelete = dups,
                         !.pc = IF script.allBooks = <<>> \/ dups = <<>>
                                THEN "done" ELSE "confirm"]
    /\ UNCHANGED <<ratings, books, req>>

\* the user's answer: 's' goes on to the deletions, anything else cancels
confirmDeletion(answer) ==
    /\ script.pc = "confirm"
    /\ script' = [script EXCEPT !.pc = IF answer THEN "delete" ELSE "done"]
    /\ UNCHANGED <<ratings, books, req>>

\* deleteBookById for the next duplicate: DELETE /books/:id removes the book
\* with that _id if there is one; a request that fails removes nothing; the
\* loop goes on either way
deleteBookById(ok) ==
    /\ script.pc = "delete"
    /\ LET duplicate == Head(script.duplicatesToDelete)
       IN  /\ books' = IF ok /\ duplicate.id \in DOMAIN books
                       THEN [x \in DOMAIN books \ {duplicate.id} |-> books[x]]
                       ELSE books
           /\ script' = [script EXCEPT !.duplicatesToDelete = Tail(@),
                            !.pc = IF Tail(script.duplicatesToDelete) = <<>>
                                   THEN "done" ELSE "delete"]
    /\ UNCHANGED <<ratings, req>>

\* a rating request for book b completes its save: the book's average and
\* count take the values of one more rating
ratingSaved(b, s) ==
    /\ b \in DOMAIN books
    /\ books[b].totalRatingsCount < MaxRated
    /\ books' = [books EXCEPT ![b].averageRating = NewAverage(books[b], s),
                              ![b].totalRatingsCount = @ + 1]
    /\ UNCHANGED <<ratings, req, script>>

\* a run of the script while books are being rated
NextDedupe ==
    \/ fetchPage
    \/ find
    \/ countDocuments
    \/ findAllReturn
    \/ pushPage
    \/ fetchFails
    \/ scan
    \/ \E answer \in BOOLEAN : confirmDeletion(answer)
    \/ \E ok \in BOOLEAN : deleteBookById(ok)
    \/ \E b \in CatalogIds, s \in RunScores : ratingSaved(b, s)

SpecDedupe == InitCatalog /\ [][NextDedupe]_vars

(* ------------------------------ claims -------------------------------- *)

Arrived(r) == req[r].pc # "idle"
Answered(r) == req[r].pc = "sent"
Succeeded(r) == Answered(r) /\ req[r].status = 200
DuplicateRating(r) ==
    Answered(r) /\ req[r].status = 409 /\ req[r].message = "Ya has calificado este libro."
ItemNotFound(r) ==
    Answered(r) /\ req[r].status = 409 /\ req[r].message = "Libro no encontrado."
InvalidScore(r) == Answered(r) /\ req[r].status = 400
ServerError(r) == Answered(r) /\ req[r].status = 500

\* the requests for book b that ended in success
Done(b) == {r \in Reqs : Succeeded(r) /\ req[r].bookId = b}

\* the positions of the ledger's events for book b
EventsOf(b) == {i \in 1..Len(ratings) : ratings[i].book = b}

RECURSIVE SumRating(_)
SumRating(S) ==
    IF S = {} THEN 0
    ELSE LET r == CHOOSE x \in S : TRUE IN req[r].rating + SumRating(S \ {r})

RECURSIVE SumScore(_)
SumScore(S) ==
    IF S = {} THEN 0
    ELSE LET i == CHOOSE x \in S : TRUE IN ratings[i].rating + SumScore(S \ {i})

Mean(sum, n) == IF n = 0 THEN Zero ELSE Rat(sum, n)

\* C1: in every reachable state of concurrent rating requests the ledger
\* holds at most one event for each (book, user) pair.
C1_OneEventPerPair ==
    \A i, j \in 1..Len(ratings) :
        (ratings[i].book = ratings[j].book /\ ratings[i].user = ratings[j].user) => i = j

\* two requests of one pair both passed the existence check; the second
\* insert was refused by the index
C1_Witness ==
    \E r, o \in Reqs :
        /\ r # o
        /\ req[r].bookId = req[o].bookId /\ req[r].userId = req[o].userId
        /\ req[r].pc = "load"
        /\ ServerError(o)
        /\ Len(ratings) = 1

\* C2: of the requests of one (book, user) pair on an existing book, once all
\* are answered, exactly one succeeded and every other one got the
\* DuplicateRating answer (409, 'Ya has calificado este libro.').
C2_OneWinnerOthersDuplicate ==
    \A b \in DOMAIN books, u \in UserIds :
        LET S == {r \in Reqs : Arrived(r) /\ req[r].bookId = b /\ req[r].userId = u}
        IN  (S # {} /\ \A r \in S : Answered(r)) =>
                /\ Cardinality({r \in S : Succeeded(r)}) = 1
                /\ \A r \in S : Succeeded(r) \/ DuplicateRating(r)

\* C3: when exactly two requests on one existing, unrated book have
\* succeeded (two different raters), the book counts two ratings and its
\* average is the mean of the two scores.
C3_BothRatersCounted ==
    \A b \in DOMAIN books :
        (Cardinality(Done(b)) = 2 /\ Quiescent) =>
            /\ books[b].totalRatingsCount = 2
            /\ books[b].averageRating = Mean(SumRating(Done(b)), 2)

\* C4: whenever no request is in progress, every book's count is the number
\* of ledger events of the book and average * count is the sum of their
\* scores.
C4_AggregateMatchesLedger ==
    Quiescent =>
        \A b \in DOMAIN books :
            /\ books[b].totalRatingsCount = Cardinality(EventsOf(b))
            /\ books[b].averageRating[1] * books[b].totalRatingsCount
                  = SumScore(EventsOf(b)) * books[b].averageRating[2]

Unsigned(s) == IF s # <<>> /\ Head(s) = "-" THEN Tail(s) ELSE s
IntDigits(s) == SubSeq(Unsigned(s), 1, DigitPrefixLen(Unsigned(s)))
AfterInt(s) == SubSeq(Unsigned(s), DigitPrefixLen(Unsigned(s)) + 1, Len(Unsigned(s)))
FracDigits(s) == IF AfterInt(s) = <<>> THEN <<>> ELSE Tail(AfterInt(s))

\* s is a decimal numeral: sign, digits, at most one point, digits, with at
\* least one digit
IsNumeric(s) ==
    /\ AfterInt(s) # <<>> => Head(AfterInt(s)) = "."
    /\ DigitPrefixLen(FracDigits(s)) = Len(FracDigits(s))
    /\ Len(IntDigits(s)) + Len(FracDigits(s)) > 0

\* s is a numeral with a value that is a whole number
IsIntegerNumeral(s) == IsNumeric(s) /\ DigitsValue(FracDigits(s)) = 0

IntegerValue(s) ==
    (IF s # <<>> /\ Head(s) = "-" THEN -1 ELSE 1) * DigitsValue(IntDigits(s))

\* the request's storage steps have not begun and never will
RejectedUntouched(r) ==
    /\ InvalidScore(r)
    /\ req[r].book = NewBook

\* C6: every request whose score is a whole number outside 1..5 or is not a
\* number at all is answered 400 on arrival, before any storage step.
C6_BadScoreRejected ==
    \A r \in Reqs :
        (Arrived(r) /\ (~IsNumeric(req[r].newRating)
                        \/ (IsIntegerNumeral(req[r].newRating)
                            /\ IntegerValue(req[r].newRating) \notin 1..5)))
            => RejectedUntouched(r)

\* C7: every request whose score is a number that is not whole is answered
\* 400 and leaves the ledger and the books as they were.
C7_FractionRejected ==
    \A r \in Reqs :
        (Arrived(r) /\ IsNumeric(req[r].newRating) /\ ~IsIntegerNumeral(req[r].newRating))
            => /\ RejectedUntouched(r)
               /\ Len(ratings) = 1
               /\ books["b1"].totalRatingsCount = 1

\* C8: a request whose existence check finds an event of its pair is
\* answered DuplicateRating by that step, and the step leaves the ledger
\* (the existing event's score included) and every book as they were.
C8_DuplicateChangesNothing ==
    [][\A r \in Reqs :
          (req[r].pc = "check" /\ req'[r].pc # "check"
           /\ RatingExists(req[r].bookId, req[r].userId))
              => /\ req'[r].pc = "sent" /\ req'[r].status = 409
                 /\ req'[r].message = "Ya has calificado este libro."
                 /\ ratings' = ratings
                 /\ books' = books]_vars

\* a request was refused as duplicate with a score other than the recorded
\* one, on a book whose aggregate holds the recorded one
C8_Witness ==
    \E r \in Reqs, i \in 1..Len(ratings) :
        /\ DuplicateRating(r)
        /\ ratings[i].book = req[r].bookId /\ ratings[i].user = req[r].userId
        /\ ratings[i].rating # req[r].rating
        /\ req[r].bookId \in DOMAIN books
        /\ books[req[r].bookId].totalRatingsCount = 1

\* the ledger holds request r's event
EventStored(r) ==
    \E i \in 1..Len(ratings) :
        ratings[i] = [rating |-> req[r].rating, book |-> req[r].bookId, user |-> req[r].userId]

\* C9: a valid request for a book id that is not in the catalog, the only
\* request of its pair, ends in ItemNotFound with its event in the ledger;
\* the step that finds the book missing changes neither ledger nor books.
C9_DanglingEvent ==
    /\ [](\A r \in Reqs :
            (Answered(r) /\ req[r].bookId \notin DOMAIN books
             /\ \A o \in Reqs \ {r} :
                   Arrived(o) => ~(req[o].bookId = req[r].bookId /\ req[o].userId = req[r].userId))
                => ItemNotFound(r) /\ EventStored(r))
    /\ [][\A r \in Reqs :
            (req[r].pc = "load" /\ req'[r].pc # "load" /\ req[r].bookId \notin DOMAIN books)
                => /\ req'[r].pc = "sent" /\ req'[r].status = 409
                   /\ req'[r].message = "Libro no encontrado."
                   /\ ratings' = ratings
                   /\ books' = books]_vars

\* a request for the missing book b2 ended in ItemNotFound and its event is
\* in the ledger next to an event of the existing book
C9_Witness ==
    \E r \in Reqs :
        /\ ItemNotFound(r) /\ req[r].bookId = "b2" /\ EventStored(r)
        /\ Len(ratings) = 2
        /\ books["b1"].totalRatingsCount = 1

\* C10: once a request of a pair has ended in ItemNotFound and the book is
\* in the catalog, a new request of the pair passes the existence check (and
\* so can go on to be counted in the aggregate).
C10_RetryAccepted ==
    [][\A r \in Reqs :
          (req[r].pc = "check" /\ req'[r].pc # "check"
           /\ req[r].bookId \in DOMAIN books
           /\ \E o \in Reqs : /\ ItemNotFound(o)
                              /\ req[o].bookId = req[r].bookId
                              /\ req[o].userId = req[r].userId)
              => req'[r].pc = "insert"]_vars

\* a request of the same pair as r was answered DuplicateRating
DuplicateAnswered(r, b, u) ==
    \E o \in Reqs \ {r} : DuplicateRating(o) /\ req[o].bookId = b /\ req[o].userId = u

C12_LedgerAppendOnly ==
    [][/\ Len(ratings') >= Len(ratings)
       /\ \A i \in 1..Len(ratings) : ratings'[i] = ratings[i]]_vars

\* the ledger grew past the event it started with, a request was refused
\* for a missing book and a listing was answered
C12_Witness ==
    /\ Len(ratings) = 2
    /\ \E r \in Reqs : ItemNotFound(r)
    /\ \E r \in Reqs : Answered(r) /\ req[r].status = 200 /\ Len(req[r].list) >= 1

\* the ids of the entries of a list
ListIds(l) == {l[k].id : k \in 1..Len(l)}

\* C18: the find of a listing request returns one entry for each event of
\* the given user and no other entry, the populate keeps the entries, and
\* neither step changes the ledger or a book.
C18_ListingExactAndReadOnly ==
    [][\A r \in Reqs :
          /\ (req[r].pc = "find" /\ req'[r].pc # "find") =>
                /\ ListIds(req'[r].list) = {i \in 1..Len(ratings) : ratings[i].user = req[r].userId}
                /\ Len(req'[r].list) = Cardinality(ListIds(req'[r].list))
                /\ \A k \in 1..Len(req'[r].list) :
                      /\ req'[r].list[k].rating = ratings[req'[r].list[k].id].rating
                      /\ req'[r].list[k].book = ratings[req'[r].list[k].id].book
                /\ ratings' = ratings /\ books' = books
          /\ (req[r].pc = "populate" /\ req'[r].pc # "populate") =>
                /\ req'[r].pc = "sent" /\ req'[r].status = 200
                /\ Len(req'[r].list) = Len(req[r].list)
                /\ \A k \in 1..Len(req[r].list) :
                      /\ req'[r].list[k].id = req[r].list[k].id
                      /\ req'[r].list[k].rating = req[r].list[k].rating
                      /\ req'[r].list[k].user = req[r].userId
                /\ ratings' = ratings /\ books' = books]_vars

\* a listing for u1 was answered with u1's one event while the ledger also
\* holds an event of u2
C18_Witness ==
    \E r \in Reqs :
        /\ Answered(r) /\ req[r].status = 200 /\ req[r].userId = "u1"
        /\ Len(req[r].list) = 1 /\ req[r].list[1].rating = 4
        /\ Len(ratings) = 2

\* the positions of the ledger's events of request r's pair
PairEvents(r) ==
    {i \in 1..Len(ratings) : ratings[i].book = req[r].bookId /\ ratings[i].user = req[r].userId}

\* C13: a request that ends in success has appended exactly one event, its
\* own, and has written the count it loaded plus 1 to its own book; its
\* steps change no other event and no other book.
C13_SuccessWritesOwnEventAndBook ==
    /\ [](\A r \in Reqs :
            Succeeded(r) => Cardinality(PairEvents(r)) = 1 /\ EventStored(r))
    /\ [][\A r \in Reqs :
            /\ (req[r].pc = "check" /\ req'[r].pc # "check")
                  => ratings' = ratings /\ books' = books
            /\ (req[r].pc = "insert" /\ req'[r].pc = "load")
                  => /\ ratings' = Append(ratings, [rating |-> req[r].rating,
                                                    book |-> req[r].bookId,
                                                    user |-> req[r].userId])
                     /\ books' = books
            /\ (req[r].pc = "load" /\ req'[r].pc = "save")
                  => /\ req'[r].book.totalRatingsCount
                            = books[req[r].bookId].totalRatingsCount + 1
                     /\ ratings' = ratings /\ books' = books
            /\ (req[r].pc = "save" /\ req'[r].pc = "sent" /\ req'[r].status = 200)
                  => /\ books'[req[r].bookId].totalRatingsCount
                            = req[r].book.totalRatingsCount
                     /\ DOMAIN books' = DOMAIN books
                     /\ \A x \in DOMAIN books \ {req[r].bookId} : books'[x] = books[x]
                     /\ ratings' = ratings]_vars

\* a request on b1 succeeded while b2, in the catalog with ratings of its
\* own choosing, kept them
C13_Witness ==
    \E r \in Reqs :
        /\ Succeeded(r) /\ req[r].bookId = "b1"
        /\ books["b1"].totalRatingsCount = 1
        /\ "b2" \in DOMAIN books
        /\ books["b2"].averageRating = Rat(5, 1)

C19_RatingFieldsOnlyByRating ==
    [][\A b \in BookIds :
          /\ (b \notin DOMAIN books /\ b \in DOMAIN books') => books'[b] = NewBook
          /\ (b \in DOMAIN books /\ b \in DOMAIN books' /\ books'[b] # books[b])
                => \E r \in Reqs : /\ req[r].pc = "save" /\ req'[r].pc = "sent"
                                   /\ req[r].bookId = b]_vars

\* the request failed on a transient storage error
StorageFailed(r) == ServerError(r) /\ req[r].error = "storage unavailable"

\* the request's insert was refused by the unique index
IndexRefused(r) == ServerError(r) /\ req[r].error = "E11000 duplicate key error"

\* the kind of failure a failed request ended in, by its cause
FailureKind(r) ==
    CASE InvalidScore(r) -> "InvalidScore"
      [] DuplicateRating(r) \/ IndexRefused(r) -> "DuplicateRating"
      [] ItemNotFound(r) -> "ItemNotFound"
      [] OTHER -> "StorageFailure"

\* C14: two failed requests whose failures are of different kinds were
\* answered with different (status, message) pairs, the duplicate found by
\* the unique index included.
C14_FailureKindsDistinct ==
    \A r, o \in Reqs :
        (/\ Answered(r) /\ ~Succeeded(r)
         /\ Answered(o) /\ ~Succeeded(o)
         /\ FailureKind(r) # FailureKind(o))
            => <<req[r].status, req[r].message>> # <<req[o].status, req[o].message>>

\* C15: status 200 is given only by the step that completes the request's
\* save, on a book that exists, when the request's own event is the one
\* event of its pair in the ledger; every other way a request ends is a
\* 400, 409 or 500.
C15_SuccessOnlyAfterBothWrites ==
    /\ [](\A r \in Reqs : Answered(r) => req[r].status \in {200, 400, 409, 500})
    /\ [](\A r \in Reqs : Succeeded(r) => EventStored(r) /\ Cardinality(PairEvents(r)) = 1)
    /\ [][\A r \in Reqs :
            (req'[r].status = 200 /\ req[r].status # 200)
                => /\ req[r].pc = "save"
                   /\ req[r].bookId \in DOMAIN books
                   /\ books'[req[r].bookId].totalRatingsCount
                         = req[r].book.totalRatingsCount]_vars

\* one request succeeded; another, whose event is in the ledger, failed at
\* a later storage step and was answered 500
C15_Witness ==
    \E r, o \in Reqs :
        /\ Succeeded(r)
        /\ StorageFailed(o) /\ EventStored(o)
        /\ req[o].bookId = req[r].bookId
        /\ books[req[r].bookId].totalRatingsCount = 1

\* C16: after a request of a pair on an existing book has failed on a
\* transient storage error, and with no other request of the pair than
\* such failed ones, the same submission sent again passes the existence
\* check (and so can reach Done).
C16_RetryAfterStorageFailure ==
    [][\A r \in Reqs :
          (/\ req[r].pc = "check" /\ req'[r].pc # "check"
           /\ req[r].bookId \in DOMAIN books
           /\ \E o \in Reqs \ {r} :
                 StorageFailed(o) /\ req[o].bookId = req[r].bookId
                                  /\ req[o].userId = req[r].userId
           /\ \A o \in Reqs \ {r} :
                 (Arrived(o) /\ req[o].bookId = req[r].bookId
                             /\ req[o].userId = req[r].userId) => StorageFailed(o))
              => req'[r].pc \in {"insert", "sent"} /\ ~(req'[r].status = 409)]_vars

\* the place of a request in the order of its steps
Rank(pc) ==
    CASE pc = "idle" -> 0 [] pc = "check" -> 1 [] pc = "insert" -> 2
      [] pc = "load" -> 3 [] pc = "save" -> 4 [] OTHER -> 5

\* the terminal states of a submission
StateDone(r) == Succeeded(r)
StateDuplicate(r) == DuplicateRating(r)
StateNotFound(r) == ItemNotFound(r)

\* C20: every request that passed the validation is answered; it ends in
\* exactly one of Done, rejected with the DuplicateRating answer and rejected
\* with the ItemNotFound answer; each step takes it further along
\* check, insert, load, save, so that no storage call is made twice, and an
\* answer is final.
C20_TerminatesOnceThrough ==
    /\ \A r \in Reqs : (req[r].pc = "check") ~> Answered(r)
    /\ [](\A r \in Reqs :
            (Answered(r) /\ ~InvalidScore(r)) =>
                /\ StateDone(r) \/ StateDuplicate(r) \/ StateNotFound(r)
                /\ ~(StateDone(r) /\ StateDuplicate(r))
                /\ ~(StateDone(r) /\ StateNotFound(r))
                /\ ~(StateDuplicate(r) /\ StateNotFound(r)))
    /\ [][\A r \in Reqs :
            /\ req'[r].pc # req[r].pc => Rank(req'[r].pc) > Rank(req[r].pc)
            /\ Answered(r) => req'[r] = req[r]]_vars

\* request r has loaded its book: it holds a document with a count of its own
Loaded(r) == req[r].pc = "save" \/ req[r].book # NewBook

\* C21: a request moves from arrival to check, insert, load, save in that
\* order, one step at a time, or to its answer; it is at its load or holds a
\* loaded document only with its own event in the ledger; a request
\* refused as duplicate, by the check or by the index, has loaded nothing,
\* and the refusing step writes no book.
C21_LoadAndSaveAfterOwnInsert ==
    /\ [](\A r \in Reqs :
            /\ (req[r].pc = "load" \/ Loaded(r)) => EventStored(r)
            /\ (DuplicateRating(r) \/ IndexRefused(r)) => ~Loaded(r))
    /\ [][\A r \in Reqs :
            /\ req'[r].pc # req[r].pc =>
                  \/ Rank(req'[r].pc) = Rank(req[r].pc) + 1
                  \/ req'[r].pc = "sent"
            /\ (req[r].pc \in {"check", "insert"} /\ req'[r].pc = "sent")
                  => books' = books
            /\ books' # books =>
                  \E o \in Reqs : req[o].pc = "save" /\ req'[o].pc = "sent" /\ EventStored(o)]_vars

\* of two requests of one pair, one is about to save while the other was
\* refused by the unique index without loading anything
C21_Witness ==
    \E r, o \in Reqs :
        /\ req[r].bookId = req[o].bookId /\ req[r].userId = req[o].userId
        /\ req[r].pc = "save"
        /\ IndexRefused(o) /\ ~Loaded(o)

\* C22: in every reachable state, whatever :newRating segment the request
\* carried, every event of the ledger has a whole score from 1 to 5.
C22_StoredScoreInRange ==
    \A i \in 1..Len(ratings) : ratings[i].rating \in 1..5

\* an event was stored for a segment that is not the numeral of its score
C22_Witness ==
    /\ Len(ratings) = 2
    /\ EventStored(1)
    /\ req[1].newRating = <<"5", ".", "6">>
    /\ ratings[2].rating = 5

\* C24: no step of concurrent rating requests lowers a book's stored
\* totalRatingsCount.
C24_CountNeverDecreases ==
    [][\A b \in DOMAIN books :
          books'[b].totalRatingsCount >= books[b].totalRatingsCount]_vars

\* a is a rational from lo to hi
Within(a, lo, hi) == lo * a[2] <= a[1] /\ a[1] <= hi * a[2]

\* C23: in every reachable state of overlapping rating requests every book
\* either has count 0 and average 0, or has a count of at least 1 and an
\* average from 1 to 5.
C23_AggregateInRange ==
    \A b \in DOMAIN books :
        \/ books[b].totalRatingsCount = 0 /\ books[b].averageRating = Zero
        \/ books[b].totalRatingsCount >= 1 /\ Within(books[b].averageRating, 1, 5)

\* a save that sent only its count landed on an average another request
\* had written in between: the book holds count 2 and the average 2 while a
\* request that scored 4 and returned the average 4 has succeeded
C23_Witness ==
    \E r \in Reqs :
        /\ Succeeded(r) /\ req[r].rating = 4 /\ ~req[r].avgModified
        /\ req[r].book = [averageRating |-> Rat(4, 1), totalRatingsCount |-> 2]
        /\ books["b1"] = [averageRating |-> Rat(2, 1), totalRatingsCount |-> 2]

\* C25: in every reachable state of overlapping rating requests every
\* book's totalRatingsCount is at most the number of events the ledger
\* holds for the book.
C25_NeverOverCounts ==
    \A b \in DOMAIN books : books[b].totalRatingsCount <= Cardinality(EventsOf(b))

\* three events are stored for b1, all three requests have succeeded, and
\* the book counts fewer than three
C25_Witness ==
    /\ Cardinality(EventsOf("b1")) = 3
    /\ \A r \in Reqs : Succeeded(r)
    /\ books["b1"].totalRatingsCount < 3

\* C26: of the requests of one (book, user) pair at most one ever loads the
\* book, so at most one saves it: a save is never made for a pair of which
\* another request has loaded, saved or succeeded.
C26_OneSavePerPair ==
    /\ [](\A r, o \in Reqs :
            (r # o /\ Arrived(r) /\ Arrived(o)
             /\ req[r].bookId = req[o].bookId /\ req[r].userId = req[o].userId)
                => ~((req[r].pc = "load" \/ Loaded(r)) /\ (req[o].pc = "load" \/ Loaded(o))))
    /\ [][\A r \in Reqs :
            (req[r].pc = "save" /\ req'[r].pc = "sent") =>
                \A o \in Reqs \ {r} :
                    (req[o].bookId = req[r].bookId /\ req[o].userId = req[r].userId)
                        => ~Succeeded(o) /\ ~Loaded(o)]_vars

\* three requests of one pair overlapped: one succeeded and raised the count
\* to 1, two were refused by the unique index
C26_Witness ==
    \E r \in Reqs :
        /\ Succeeded(r)
        /\ \A o \in Reqs \ {r} :
              /\ IndexRefused(o)
              /\ req[o].bookId = req[r].bookId /\ req[o].userId = req[r].userId
        /\ books[req[r].bookId].totalRatingsCount = 1

\* the number of books of the catalog that sort before book b
NumBefore(b) == Cardinality({d \in DOMAIN books : d # b /\ SortsBefore(d, b)})

\* C29: a response to GET /books on an unchanging catalog reports the count
\* of the catalog and totalPages = ceil(totalCount / limit); its k-th book is
\* the book with (page - 1) * limit + k - 1 books before it in the order
\* averageRating descending, _id descending; every book whose place falls
\* on the page is on it; and a page above totalPages is empty.  So pages
\* 1..totalPages hold every book once, in order.
C29_PagesPartitionCatalog ==
    script.pc = "response" =>
        LET res == script.result
            n   == Cardinality(DOMAIN books)
        IN  /\ res.limit >= 1
            /\ res.totalCount = n
            /\ res.totalPages * res.limit >= n
            /\ (res.totalPages - 1) * res.limit < n
            /\ res.totalPages >= 0
            /\ \A k \in 1..Len(res.data) :
                  /\ res.data[k].id \in DOMAIN books
                  /\ NumBefore(res.data[k].id) = (res.page - 1) * res.limit + k - 1
            /\ \A b \in DOMAIN books :
                  (NumBefore(b) \div res.limit) + 1 = res.page
                      => /\ (NumBefore(b) % res.limit) + 1 <= Len(res.data)
                         /\ res.data[(NumBefore(b) % res.limit) + 1].id = b
            /\ \A b \in DOMAIN books : (NumBefore(b) \div res.limit) + 1 <= res.totalPages
            /\ res.page > res.totalPages => res.data = <<>>

\* the second page of two of a catalog of three books, one of them rated,
\* holds the one book that sorts last; the rated book is on no such page
C29_Witness ==
    /\ script.pc = "response"
    /\ script.result.page = 2 /\ script.result.limit = 2 /\ script.result.totalPages = 2
    /\ Len(script.result.data) = 1
    /\ Cardinality(DOMAIN books) = 3
    /\ \E b \in DOMAIN books :
          /\ books[b].averageRating = Rat(4, 1)
          /\ b < script.result.data[1].id

\* C28: fetchAllBooks returns, whatever the catalog and whichever books are
\* deleted while it fetches: the loop never asks for a page above MaxPage.
C28_FetchTerminates ==
    /\ <>(script.pc = "scan")
    /\ [](script.pc = "fetch" => script.currentPage <= MaxPage)

\* the page came back empty while the response's totalCount, counted before
\* a deletion, is above the number of books in hand: the loop goes on
C28_Witness ==
    /\ script.pc = "response"
    /\ script.result.data = <<>>
    /\ script.currentPage >= 2
    /\ Len(script.allBooks) < script.result.totalCount
    /\ Cardinality(DOMAIN books) < script.result.totalCount

\* C27: every step that deletes a book leaves in the catalog another book
\* with the deleted book's key, so no key a book had when the run started is
\* lost, also when the fetch returned a book more than once.
C27_KeepsOneOfEveryKey ==
    [][\A b \in DOMAIN books :
          b \notin DOMAIN books' =>
              \E d \in DOMAIN books' : Key(books'[d]) = Key(books[b])]_vars

====
